---- MODULE Spec2Model ----
(***************************************************************************)
(* Model of hugging-face-server/app.py: a Flask service that stages an     *)
(* image, calls a remote image-to-3D model, stores the GLB it returns and  *)
(* optionally converts it to OBJ.  File names are sequences of one-letter  *)
(* strings so that the string operations of the code (rsplit, lower,       *)
(* endswith, replace) are computed rather than assumed.                    *)
(***************************************************************************)
EXTENDS Integers, Sequences, FiniteSets, TLC

\* Number of requests the (threaded) server handles at the same time.
MaxThreads == 2
\* Number of job IDs uuid4 can hand out during one run of the model.
MaxJobs == 2

Threads == 1..MaxThreads

VARIABLES
  handler,        \* per thread: the request it serves and the handler's locals
  sent,           \* the request answered by the last step, with its response
  UPLOAD_FOLDER,  \* contents of the upload area: file name -> image content
  OUTPUT_FOLDER,  \* contents of the output area: entry name -> file or directory
  clock,          \* filesystem time, stamps an output file when it is written
  allocated       \* the job IDs uuid4 has returned so far

vars == <<handler, sent, UPLOAD_FOLDER, OUTPUT_FOLDER, clock, allocated>>

----------------------------------------------------------------------------
\* Strings as sequences of characters

Str_glb  == <<"g", "l", "b">>
Str_obj  == <<"o", "b", "j">>
Str_jpg  == <<"j", "p", "g">>
Ext_glb  == <<".">> \o Str_glb
Ext_obj  == <<".">> \o Str_obj

UpperCase == <<"A", "B", "E", "F", "G", "I", "J", "L", "N", "O", "P", "W">>
LowerCase == <<"a", "b", "e", "f", "g", "i", "j", "l", "n", "o", "p", "w">>

\* str.lower() on one character
lowerChar(c) ==
  IF \E i \in 1..Len(UpperCase) : UpperCase[i] = c
    THEN LowerCase[CHOOSE i \in 1..Len(UpperCase) : UpperCase[i] = c]
    ELSE c

\* str.lower()
lower(s) == [i \in 1..Len(s) |-> lowerChar(s[i])]

\* "c" in s
contains(s, c) == \E i \in 1..Len(s) : s[i] = c

\* s.endswith(suffix)
endswith(s, suffix) ==
  /\ Len(s) >= Len(suffix)
  /\ SubSeq(s, Len(s) - Len(suffix) + 1, Len(s)) = suffix

\* s.startswith(prefix)
startswith(s, prefix) ==
  /\ Len(s) >= Len(prefix)
  /\ SubSeq(s, 1, Len(prefix)) = prefix

\* index of the last c in s, 0 when there is none
lastIndex(s, c) ==
  IF contains(s, c)
    THEN CHOOSE i \in 1..Len(s) : s[i] = c /\ \A k \in (i + 1)..Len(s) : s[k] # c
    ELSE 0

\* index of the first c in s, Len(s) + 1 when there is none
firstIndex(s, c) ==
  IF contains(s, c)
    THEN CHOOSE i \in 1..Len(s) : s[i] = c /\ \A k \in 1..(i - 1) : s[k] # c
    ELSE Len(s) + 1

\* s.split(c)[-1] and s.rsplit(c, 1)[1]: what follows the last c
afterLast(s, c) == SubSeq(s, lastIndex(s, c) + 1, Len(s))

\* s.split(c)[0]: what precedes the first c
beforeFirst(s, c) == SubSeq(s, 1, firstIndex(s, c) - 1)

\* s[:n]
slice(s, n) == SubSeq(s, 1, IF Len(s) < n THEN Len(s) ELSE n)

\* s.replace(pat, "")
RECURSIVE replace(_, _)
replace(s, pat) ==
  IF Len(s) < Len(pat) THEN s
  ELSE IF SubSeq(s, 1, Len(pat)) = pat
    THEN replace(SubSeq(s, Len(pat) + 1, Len(s)), pat)
    ELSE <<Head(s)>> \o replace(Tail(s), pat)

\* os.path.splitext(name)[0]: a leading dot does not start an extension
splitext(name) ==
  IF lastIndex(name, ".") > 1 THEN SubSeq(name, 1, lastIndex(name, ".") - 1) ELSE name

\* s.strip("._")
RECURSIVE strip(_)
strip(s) ==
  IF s = <<>> THEN s
  ELSE IF Head(s) \in {".", "_"} THEN strip(Tail(s))
  ELSE IF s[Len(s)] \in {".", "_"} THEN strip(SubSeq(s, 1, Len(s) - 1))
  ELSE s

\* werkzeug's secure_filename on names made of ASCII letters, dots and
\* underscores: such characters are kept and the result is stripped of
\* leading and trailing dots and underscores.
secure_filename(filename) == strip(filename)

----------------------------------------------------------------------------
\* Partial functions (directory contents, optional values)

Put(f, k, v) == [x \in (DOMAIN f) \cup {k} |-> IF x = k THEN v ELSE f[x]]
Remove(f, k) == [x \in (DOMAIN f) \ {k} |-> f[x]]
Empty == [x \in {} |-> 0]

\* An optional value is the empty set or a singleton
The(s) == CHOOSE x \in s : TRUE
\* dict.get(key, default)
get(field, default) == IF field = {} THEN default ELSE The(field)

\* A regular file of the output area and a directory of the output area
File(content, time) == [kind |-> "file", content |-> {content}, ctime |-> time, files |-> {}]
Dir(names)          == [kind |-> "dir", content |-> {}, ctime |-> 0, files |-> names]

----------------------------------------------------------------------------
\* Configuration

ALLOWED_EXTENSIONS ==
  {<<"p", "n", "g">>, <<"j", "p", "g">>, <<"j", "p", "e", "g">>, <<"w", "e", "b", "p">>}

fallback_url == "https://huggingface.co/spaces/tencent/Hunyuan3D-2.1"

\* an extension test that reads what follows the first dot, not the last
allowed_file_first_dot(filename) ==
  /\ contains(filename, ".")
  /\ lower(beforeFirst(SubSeq(filename, firstIndex(filename, ".") + 1, Len(filename)), "."))
       \in ALLOWED_EXTENSIONS

allowed_file(filename) ==
  /\ contains(filename, ".")
  /\ lower(afterLast(filename, ".")) \in ALLOWED_EXTENSIONS

\* The job IDs of the model, all of one length as UUID strings are
JobId(i) == <<"j", ToString(i)>>
JobIds == {JobId(i) : i \in 1..MaxJobs}

\* an allocator that can return an identifier a second time
uuid4_reused == JobIds

\* str(uuid.uuid4()): an identifier that was never returned before.  Which
\* of the unused identifiers it is makes no difference to the service, so the
\* model takes them in order.
uuid4 ==
  {JobId(i) : i \in {k \in 1..MaxJobs : /\ JobId(k) \notin allocated
                                       /\ \A m \in 1..(k - 1) : JobId(m) \in allocated}}

\* a staged name that is not keyed by the job ID
unique_filename_unkeyed(job_id, filename) == secure_filename(filename)

\* the name of the staged upload: f"{job_id}_{secure_filename(file.filename)}"
unique_filename(job_id, filename) == job_id \o <<"_">> \o secure_filename(filename)

\* the name of a job's GLB in the output area: f"{job_id}.glb"
output_glb_path(job_id) == job_id \o Ext_glb

\* the format read without lower-casing
output_format_of_as_sent(field) == get(field, Str_glb)

\* request.form.get("output_format", "glb").lower()
output_format_of(field) == lower(get(field, Str_glb))

\* a cleanup that leaves the staged file behind
remove_if_exists_keeps(folder, image_path) == folder

\* if os.path.exists(image_path): os.remove(image_path)
remove_if_exists(folder, image_path) ==
  IF image_path \in DOMAIN folder THEN Remove(folder, image_path) ELSE folder

----------------------------------------------------------------------------
\* Requests and responses

\* What a client can send.  An absent part, field or key is the empty set.
\* A field of the request is recorded here when the handler reads it.
NoRequest ==
  [files |-> {}, image_url |-> {}, output_format |-> {}, job_id |-> <<>>, format |-> ""]

\* request.files of POST /api/generate: no file part, an empty filename,
\* allowed and disallowed names
UploadFiles ==
  { {},
    {<<>>},
    {<<"a", ".", "P", "N", "G">>},
    {<<".", "w", "e", "b", "p">>},
    {<<"a", ".", "g", "i", "f">>},
    {<<"p", "n", "g">>},
    {<<"a", ".", "p", "n", "g", ".", "b">>} }

\* the output_format field of a form or of a JSON body
FormatFields == { {}, {<<"o", "b", "j">>}, {<<"O", "b", "J">>} }

\* the steps field of a form
StepsFields == { {}, {<<"3", "0">>}, {<<"a">>} }

\* the image_url key of the JSON body of POST /api/generate/url
ImageUrls ==
  { {},
    {<<"u", ".", "p", "n", "g", "?", "v">>},
    {<<"u", ".", "P", "N", "G">>} }

\* what requests.get / raise_for_status raise
DownloadErrors == {"ConnectionError", "Timeout", "HTTPError"}

\* the path parameters of GET /api/download/<job_id>/<format>
DownloadIds == JobIds \cup {j \o Ext_glb : j \in JobIds}
Formats == {"glb", "obj", "stl"}

NoResponse ==
  [code |-> 0, json |-> FALSE, error |-> "", message |-> "", fallback_url |-> "",
   job_id |-> <<>>, status |-> "", glb_url |-> {}, obj_url |-> {},
   file |-> {}, models |-> <<>>, total |-> 0]

\* jsonify({...}), code
jsonify(code, fields) ==
  [k \in DOMAIN NoResponse |->
     IF k = "code" THEN code
     ELSE IF k = "json" THEN TRUE
     ELSE IF k \in DOMAIN fields THEN fields[k] ELSE NoResponse[k]]

\* an exception that leaves the view function: Flask answers with its own
\* 500 page, which carries neither the exception message nor a JSON body
InternalServerError == [NoResponse EXCEPT !.code = 500, !.message = "Internal Server Error"]

\* send_file(path, as_attachment=True)
send_file(name, content) ==
  [NoResponse EXCEPT !.code = 200, !.file = {[name |-> name, content |-> content]}]

\* the download URL f"/api/download/{job_id}/{format}"
download_url(job_id, format) == <<job_id, format>>

\* the bytes of the image a thread's client sends or the URL serves to it
Image(t) == [image_of |-> t]

Idle ==
  [op |-> "idle", pc |-> "idle", request |-> NoRequest, job_id |-> <<>>,
   image_path |-> {}, output_format |-> {}, glb_path |-> {}, remote |-> FALSE,
   response |-> NoResponse]

----------------------------------------------------------------------------
\* Remote generation and conversion

\* int(x) succeeds on a string of decimal digits
int_ok(s) == s # <<>> /\ \A i \in 1..Len(s) : s[i] \in {"0", "1", "2", "3", "4", "5", "6", "7", "8", "9"}

\* fetch_3d_from_image(image_path, params): the outcomes of the remote call.
\* The remote model returns the path of a GLB made from the image it was
\* sent, or the client raises.
fetch_3d_from_image(image_path) ==
  IF image_path \in DOMAIN UPLOAD_FOLDER
    THEN { [ok |-> TRUE,  glb |-> {[glb_of |-> UPLOAD_FOLDER[image_path]]}, exc |-> ""],
           [ok |-> FALSE, glb |-> {}, exc |-> "RemoteError"] }
    ELSE { [ok |-> FALSE, glb |-> {}, exc |-> "FileNotFoundError"] }

\* companion files scene.export may write next to the OBJ
Companions == { {}, {<<"m", ".", "m", "t", "l">>} }

\* a conversion that removes the GLB when loading or exporting fails
convert_glb_to_obj_rollback(glb_name, folder) ==
  LET base_name == splitext(glb_name)
      made      == IF base_name \in DOMAIN folder THEN folder ELSE Put(folder, base_name, Dir({}))
  IN  { [ok |-> FALSE, folder |-> Remove(made, glb_name), exc |-> "ConversionError"] }
      \cup
      { [ok |-> TRUE,
         folder |-> Put(made, base_name,
                        Dir(made[base_name].files \cup {base_name \o Ext_obj} \cup c)),
         exc |-> ""] : c \in Companions }

\* convert_glb_to_obj(glb_path, output_dir) with glb_path a file of the
\* output area: the outcomes, each with the output area it leaves behind
convert_glb_to_obj(glb_name, folder) ==
  LET base_name == splitext(glb_name)
      exists    == base_name \in DOMAIN folder
      made      == IF exists THEN folder ELSE Put(folder, base_name, Dir({}))
  IN  IF exists /\ folder[base_name].kind = "file"
        THEN { [ok |-> FALSE, folder |-> folder, exc |-> "FileExistsError"] }
      ELSE IF glb_name \notin DOMAIN folder
        THEN { [ok |-> FALSE, folder |-> made, exc |-> "ConversionError"] }
      ELSE { [ok |-> FALSE, folder |-> made, exc |-> "ConversionError"] }
           \cup
           { [ok |-> TRUE,
              folder |-> Put(made, base_name,
                             Dir(made[base_name].files \cup {base_name \o Ext_obj} \cup c)),
              exc |-> ""] : c \in Companions }

----------------------------------------------------------------------------
\* POST /api/generate

\* a request is taken by the first thread that is free
accepts(t) ==
  /\ handler[t].pc = "idle"
  /\ \A u \in Threads : u < t => handler[u].pc # "idle"

\* the handler goes on: nothing is sent in this step
Set(t, rec) ==
  /\ handler' = [handler EXCEPT ![t] = rec]
  /\ sent' = Idle

\* the handler returns: its response is sent and the thread is free again
Return(t, rec) ==
  /\ handler' = [handler EXCEPT ![t] = Idle]
  /\ sent' = rec

\* the body of the except clause of generate_3d_model
generate_3d_model_except(e) ==
  jsonify(500, [error |-> e,
                message |-> "Generation failed. The Hugging Face Space may be overloaded.",
                fallback_url |-> fallback_url])

\* validation, job allocation and staging of the upload
generate_3d_model_begin(t) ==
  /\ accepts(t)
  /\ \E files \in UploadFiles :
       LET req == [NoRequest EXCEPT !.files = files]
           rejected(msg) ==
             /\ Return(t, [Idle EXCEPT !.op = "generate", !.pc = "done", !.request = req,
                                    !.response = jsonify(400, [error |-> msg])])
             /\ UNCHANGED <<UPLOAD_FOLDER, OUTPUT_FOLDER, clock, allocated>>
       IN  IF files = {} THEN rejected("No file provided")
           ELSE IF The(files) = <<>> THEN rejected("No file selected")
           ELSE IF ~allowed_file(The(files)) THEN rejected("File type not allowed")
           ELSE \E job_id \in uuid4 :
                  LET image_path == unique_filename(job_id, The(files))
                  IN  /\ allocated' = allocated \cup {job_id}
                      /\ UPLOAD_FOLDER' = Put(UPLOAD_FOLDER, image_path, Image(t))
                      /\ Set(t, [Idle EXCEPT !.op = "generate", !.pc = "fetch",
                                             !.request = req, !.job_id = job_id,
                                             !.image_path = {image_path}])
                      /\ UNCHANGED <<OUTPUT_FOLDER, clock>>

\* parameter parsing and the remote call
generate_3d_model_fetch(t) ==
  /\ handler[t].op = "generate" /\ handler[t].pc = "fetch"
  /\ UNCHANGED <<UPLOAD_FOLDER, OUTPUT_FOLDER, clock, allocated>>
  /\ \E steps \in StepsFields, fmt \in FormatFields :
       IF ~int_ok(get(steps, <<"3", "0">>))
         THEN Set(t, [handler[t] EXCEPT !.pc = "finally",
                                        !.response = generate_3d_model_except("ValueError")])
         ELSE \E r \in fetch_3d_from_image(The(handler[t].image_path)) :
                LET output_format == output_format_of(fmt)
                IN  IF r.ok
                      THEN Set(t, [handler[t] EXCEPT !.pc = "copy", !.remote = TRUE,
                                                     !.request.output_format = fmt,
                                                     !.output_format = {output_format},
                                                     !.glb_path = r.glb])
                      ELSE Set(t, [handler[t] EXCEPT !.pc = "finally", !.remote = TRUE,
                                                     !.request.output_format = fmt,
                                                     !.output_format = {output_format},
                                                     !.response = generate_3d_model_except(r.exc)])

\* shutil.copy of the returned GLB into the output area
generate_3d_model_copy(t) ==
  /\ handler[t].op = "generate" /\ handler[t].pc = "copy"
  /\ \E tick \in {0, 1} :
       LET job_id == handler[t].job_id
       IN  /\ clock' = clock + tick
           /\ OUTPUT_FOLDER' = Put(OUTPUT_FOLDER, output_glb_path(job_id),
                                   File(The(handler[t].glb_path), clock'))
           /\ Set(t, [handler[t] EXCEPT
                        !.pc = "convert",
                        !.response = jsonify(200, [job_id |-> job_id, status |-> "completed",
                                                   glb_url |-> {download_url(job_id, "glb")}])])
  /\ UNCHANGED <<UPLOAD_FOLDER, allocated>>

\* the optional conversion and the return of the response
generate_3d_model_convert(t) ==
  /\ handler[t].op = "generate" /\ handler[t].pc = "convert"
  /\ UNCHANGED <<UPLOAD_FOLDER, clock, allocated>>
  /\ LET job_id == handler[t].job_id
     IN  IF The(handler[t].output_format) = Str_obj
           THEN \E r \in convert_glb_to_obj(output_glb_path(job_id), OUTPUT_FOLDER) :
                  /\ OUTPUT_FOLDER' = r.folder
                  /\ IF r.ok
                       THEN Set(t, [handler[t] EXCEPT
                                      !.pc = "finally",
                                      !.response.obj_url = {download_url(job_id, "obj")}])
                       ELSE Set(t, [handler[t] EXCEPT
                                      !.pc = "finally",
                                      !.response = generate_3d_model_except(r.exc)])
           ELSE /\ Set(t, [handler[t] EXCEPT !.pc = "finally"])
                /\ UNCHANGED OUTPUT_FOLDER

\* the finally clause: removal of the staged upload
generate_3d_model_finally(t) ==
  /\ handler[t].op = "generate" /\ handler[t].pc = "finally"
  /\ UPLOAD_FOLDER' = remove_if_exists(UPLOAD_FOLDER, The(handler[t].image_path))
  /\ Return(t, [handler[t] EXCEPT !.pc = "done"])
  /\ UNCHANGED <<OUTPUT_FOLDER, clock, allocated>>

----------------------------------------------------------------------------
\* POST /api/generate/url

\* the body of the except clause of generate_from_url
generate_from_url_except(e) ==
  jsonify(500, [error |-> e, message |-> "Generation failed"])

\* the extension of the staged file, inferred from the URL
url_ext(image_url) ==
  LET ext == slice(beforeFirst(afterLast(image_url, "."), "?"), 4)
  IN  IF ext \notin ALLOWED_EXTENSIONS THEN Str_jpg ELSE ext

\* the name of the staged download: f"{job_id}.{ext}"
url_image_path(job_id, image_url) == job_id \o <<".">> \o url_ext(image_url)

\* validation of the JSON body and job allocation
generate_from_url_begin(t) ==
  /\ accepts(t)
  /\ UNCHANGED <<UPLOAD_FOLDER, OUTPUT_FOLDER, clock>>
  /\ \E image_url \in ImageUrls :
       LET req == [NoRequest EXCEPT !.image_url = image_url]
       IN  IF image_url = {}
             THEN /\ Return(t, [Idle EXCEPT !.op = "generate_url", !.pc = "done", !.request = req,
                                         !.response = jsonify(400, [error |-> "image_url is required"])])
                  /\ UNCHANGED allocated
             ELSE \E job_id \in uuid4 :
                    /\ allocated' = allocated \cup {job_id}
                    /\ Set(t, [Idle EXCEPT !.op = "generate_url", !.pc = "download",
                                           !.request = req, !.job_id = job_id])

\* download of the image and staging under {job_id}.{ext}
generate_from_url_download(t) ==
  /\ handler[t].op = "generate_url" /\ handler[t].pc = "download"
  /\ UNCHANGED <<OUTPUT_FOLDER, clock, allocated>>
  /\ \/ \E e \in DownloadErrors :
          /\ Set(t, [handler[t] EXCEPT !.pc = "finally",
                                       !.response = generate_from_url_except(e)])
          /\ UNCHANGED UPLOAD_FOLDER
     \/ LET image_path == url_image_path(handler[t].job_id, The(handler[t].request.image_url))
        IN  /\ UPLOAD_FOLDER' = Put(UPLOAD_FOLDER, image_path, Image(t))
            /\ Set(t, [handler[t] EXCEPT !.pc = "fetch", !.image_path = {image_path}])

\* parameters (not coerced) and the remote call
generate_from_url_fetch(t) ==
  /\ handler[t].op = "generate_url" /\ handler[t].pc = "fetch"
  /\ UNCHANGED <<UPLOAD_FOLDER, OUTPUT_FOLDER, clock, allocated>>
  /\ \E fmt \in FormatFields, r \in fetch_3d_from_image(The(handler[t].image_path)) :
       LET output_format == output_format_of(fmt)
       IN  IF r.ok
             THEN Set(t, [handler[t] EXCEPT !.pc = "copy", !.remote = TRUE,
                                            !.request.output_format = fmt,
                                            !.output_format = {output_format},
                                            !.glb_path = r.glb])
             ELSE Set(t, [handler[t] EXCEPT !.pc = "finally", !.remote = TRUE,
                                            !.request.output_format = fmt,
                                            !.output_format = {output_format},
                                            !.response = generate_from_url_except(r.exc)])

\* shutil.copy of the returned GLB into the output area
generate_from_url_copy(t) ==
  /\ handler[t].op = "generate_url" /\ handler[t].pc = "copy"
  /\ \E tick \in {0, 1} :
       LET job_id == handler[t].job_id
       IN  /\ clock' = clock + tick
           /\ OUTPUT_FOLDER' = Put(OUTPUT_FOLDER, output_glb_path(job_id),
                                   File(The(handler[t].glb_path), clock'))
           /\ Set(t, [handler[t] EXCEPT
                        !.pc = "convert",
                        !.response = jsonify(200, [job_id |-> job_id, status |-> "completed",
                                                   glb_url |-> {download_url(job_id, "glb")}])])
  /\ UNCHANGED <<UPLOAD_FOLDER, allocated>>

\* the optional conversion and the return of the response
generate_from_url_convert(t) ==
  /\ handler[t].op = "generate_url" /\ handler[t].pc = "convert"
  /\ UNCHANGED <<UPLOAD_FOLDER, clock, allocated>>
  /\ LET job_id == handler[t].job_id
     IN  IF The(handler[t].output_format) = Str_obj
           THEN \E r \in convert_glb_to_obj(output_glb_path(job_id), OUTPUT_FOLDER) :
                  /\ OUTPUT_FOLDER' = r.folder
                  /\ IF r.ok
                       THEN Set(t, [handler[t] EXCEPT
                                      !.pc = "finally",
                                      !.response.obj_url = {download_url(job_id, "obj")}])
                       ELSE Set(t, [handler[t] EXCEPT
                                      !.pc = "finally",
                                      !.response = generate_from_url_except(r.exc)])
           ELSE /\ Set(t, [handler[t] EXCEPT !.pc = "finally"])
                /\ UNCHANGED OUTPUT_FOLDER

\* the finally clause: image_path is a local that is bound only once the
\* image was downloaded; reading it unbound raises UnboundLocalError, which
\* replaces the response the except clause was returning
generate_from_url_finally(t) ==
  /\ handler[t].op = "generate_url" /\ handler[t].pc = "finally"
  /\ UNCHANGED <<OUTPUT_FOLDER, clock, allocated>>
  /\ IF handler[t].image_path = {}
       THEN /\ Return(t, [handler[t] EXCEPT !.pc = "done", !.response = InternalServerError])
            /\ UNCHANGED UPLOAD_FOLDER
       ELSE /\ UPLOAD_FOLDER' = remove_if_exists(UPLOAD_FOLDER, The(handler[t].image_path))
            /\ Return(t, [handler[t] EXCEPT !.pc = "done"])

----------------------------------------------------------------------------
\* GET /api/download/<job_id>/<format>, GET /api/models, GET /health, GET /

\* the responses download_model can give in the output area `folder`
download_responses(folder, job_id, format) ==
  LET not_found == jsonify(404, [error |-> "File not found"])
      file_path == output_glb_path(job_id)
      obj_dir   == job_id
  IN  IF format = "glb"
        THEN IF file_path \in DOMAIN folder
               THEN {send_file(file_path, folder[file_path].content)}
               ELSE {not_found}
      ELSE IF format = "obj"
        THEN IF obj_dir \in DOMAIN folder
               THEN IF folder[obj_dir].kind # "dir"
                      THEN {InternalServerError}    \* os.listdir raises NotADirectoryError
                    ELSE IF \E f \in folder[obj_dir].files : endswith(f, Ext_obj)
                      THEN {send_file(<<obj_dir, f>>, {}) :
                              f \in {g \in folder[obj_dir].files : endswith(g, Ext_obj)}}
                    ELSE {not_found}
               ELSE {not_found}
      ELSE {not_found}

download_model(t) ==
  /\ accepts(t)
  /\ UNCHANGED <<UPLOAD_FOLDER, OUTPUT_FOLDER, clock, allocated>>
  /\ \E job_id \in DownloadIds, format \in Formats :
       \E resp \in download_responses(OUTPUT_FOLDER, job_id, format) :
         Return(t, [Idle EXCEPT !.op = "download", !.pc = "done",
                             !.request = [NoRequest EXCEPT !.job_id = job_id, !.format = format],
                             !.response = resp])

\* the orders in which a set of names can be enumerated
Orders(S) == {o \in [1..Cardinality(S) -> S] : \A i, k \in DOMAIN o : i # k => o[i] # o[k]}

\* a sort without reverse=True: smallest key first
RECURSIVE sorted_ascending(_)
sorted_ascending(seq) ==
  IF seq = <<>> THEN <<>>
  ELSE LET rest == sorted_ascending(Tail(seq))
           x    == Head(seq)
           n    == Cardinality({i \in 1..Len(rest) : rest[i].created_at < x.created_at})
       IN  SubSeq(rest, 1, n) \o <<x>> \o SubSeq(rest, n + 1, Len(rest))

\* sorted(seq, key=created_at, reverse=True): stable, largest key first
RECURSIVE sorted_reverse(_)
sorted_reverse(seq) ==
  IF seq = <<>> THEN <<>>
  ELSE LET rest == sorted_reverse(Tail(seq))
           x    == Head(seq)
           \* x goes before the first element whose key is not larger than its own
           n    == Cardinality({i \in 1..Len(rest) : rest[i].created_at > x.created_at})
       IN  SubSeq(rest, 1, n) \o <<x>> \o SubSeq(rest, n + 1, Len(rest))

\* the responses list_models can give: os.listdir enumerates the output
\* area in an arbitrary order (entries that do not end in .glb are skipped
\* by the loop, so only the order of the others shows)
list_responses(folder) ==
  { LET models == [i \in DOMAIN listdir |->
                     LET job_id == replace(listdir[i], Ext_glb)
                     IN  [job_id |-> job_id,
                          glb_url |-> download_url(job_id, "glb"),
                          created_at |-> folder[listdir[i]].ctime]]
    IN  jsonify(200, [models |-> sorted_reverse(models), total |-> Len(models)])
    : listdir \in Orders({f \in DOMAIN folder : endswith(f, Ext_glb)}) }

list_models(t) ==
  /\ accepts(t)
  /\ UNCHANGED <<UPLOAD_FOLDER, OUTPUT_FOLDER, clock, allocated>>
  /\ \E resp \in list_responses(OUTPUT_FOLDER) :
       Return(t, [Idle EXCEPT !.op = "models", !.pc = "done", !.response = resp])

health_check(t) ==
  /\ accepts(t)
  /\ UNCHANGED <<UPLOAD_FOLDER, OUTPUT_FOLDER, clock, allocated>>
  /\ Return(t, [Idle EXCEPT !.op = "health", !.pc = "done",
                         !.response = jsonify(200, [status |-> "healthy"])])

index(t) ==
  /\ accepts(t)
  /\ UNCHANGED <<UPLOAD_FOLDER, OUTPUT_FOLDER, clock, allocated>>
  /\ Return(t, [Idle EXCEPT !.op = "index", !.pc = "done",
                         !.response = jsonify(200, [message |-> "Hugging Face 3D Generation Server"])])

----------------------------------------------------------------------------

Init ==
  /\ handler = [t \in Threads |-> Idle]
  /\ sent = Idle
  /\ UPLOAD_FOLDER = Empty
  /\ OUTPUT_FOLDER = Empty
  /\ clock = 0
  /\ allocated = {}

Next ==
  \E t \in Threads :
    \/ generate_3d_model_begin(t)
    \/ generate_3d_model_fetch(t)
    \/ generate_3d_model_copy(t)
    \/ generate_3d_model_convert(t)
    \/ generate_3d_model_finally(t)
    \/ generate_from_url_begin(t)
    \/ generate_from_url_download(t)
    \/ generate_from_url_fetch(t)
    \/ generate_from_url_copy(t)
    \/ generate_from_url_convert(t)
    \/ generate_from_url_finally(t)
    \/ download_model(t)
    \/ list_models(t)
    \/ health_check(t)
    \/ index(t)

Spec == Init /\ [][Next]_vars

----------------------------------------------------------------------------
\* Properties

Generate == {"generate", "generate_url"}

\* the last step answered a request of one of the generate endpoints
Finished == sent.op \in Generate

\* the files of the upload area and the entries of the output area that
\* carry a job ID
StagedFor(job_id)    == {p \in DOMAIN UPLOAD_FOLDER : startswith(p, job_id)}
ArtifactsFor(job_id) == {n \in DOMAIN OUTPUT_FOLDER : startswith(n, job_id)}

\* the GLB files present in an output area
GlbFiles(folder) == {n \in DOMAIN folder : folder[n].kind = "file" /\ endswith(n, Ext_glb)}

\* the job IDs of the requests that are being handled
InFlight == {handler[t].job_id : t \in Threads}

\* C1: once a generate request has finished, with 200, 400 or 500, no staged
\* input file of its job ID exists in the upload area: not when the response
\* is sent, and not at any time after it.
C1_StagedInputRemoved ==
  /\ Finished =>
       /\ sent.response.code \in {200, 400, 500}
       /\ sent.job_id # <<>> => StagedFor(sent.job_id) = {}
  /\ \A job_id \in allocated \ InFlight : StagedFor(job_id) = {}

\* a URL request whose image was staged and whose remote call then failed
C1_Witness ==
  /\ Finished /\ sent.op = "generate_url"
  /\ sent.image_path # {} /\ sent.remote
  /\ sent.response.code = 500

\* request.files has no file part, an empty filename, or a filename that
\* does not end, case-insensitively, in a dot and an allowed extension
InvalidUpload(files) ==
  \/ files = {}
  \/ The(files) = <<>>
  \/ ~ \E e \in ALLOWED_EXTENSIONS : endswith(lower(The(files)), <<".">> \o e)

\* no handler goes on with an upload that is invalid
InvalidUploadNotHandled ==
  \A t \in Threads :
    handler[t].op = "generate" => ~InvalidUpload(handler[t].request.files)

\* an invalid upload is answered 400 without a job, a remote call or a
\* change of the upload or output area
InvalidUploadAnswered400 ==
  (sent'.op = "generate" /\ InvalidUpload(sent'.request.files)) =>
    /\ sent'.response.code = 400
    /\ ~sent'.remote
    /\ sent'.job_id = <<>>
    /\ UNCHANGED <<UPLOAD_FOLDER, OUTPUT_FOLDER, allocated>>

\* C2: a POST /api/generate without file part, with an empty filename or with
\* a disallowed extension is answered 400 at once: no remote call, no job,
\* no change of the upload or output area.
C2_InvalidUploadRejected == []InvalidUploadNotHandled /\ [][InvalidUploadAnswered400]_vars

\* an upload rejected for its extension while another job's GLB is stored
C2_Witness ==
  /\ sent.op = "generate"
  /\ sent.request.files = {<<"a", ".", "p", "n", "g", ".", "b">>}
  /\ sent.response.error = "File type not allowed"
  /\ OUTPUT_FOLDER # Empty

\* the last step answered a URL request whose image download failed: the
\* job was allocated and image_path was never bound
DownloadFailed ==
  /\ sent.op = "generate_url"
  /\ sent.job_id # <<>> /\ sent.image_path = {}

\* C3: a URL request whose image download fails is answered 500 with a
\* structured error object carrying the exception message, and nothing is
\* staged or stored for its job ID.
C3_DownloadFailureStructured ==
  DownloadFailed =>
    /\ sent.response.code = 500
    /\ sent.response.json
    /\ sent.response.error \in DownloadErrors
    /\ StagedFor(sent.job_id) = {}
    /\ ArtifactsFor(sent.job_id) = {}

\* C4: on both generate endpoints a failure after validation is answered 500
\* with the exception message and the static fallback link.
C4_FailureHasMessageAndFallback ==
  (Finished /\ sent.job_id # <<>> /\ sent.response.status # "completed") =>
    /\ sent.response.code = 500
    /\ sent.response.error # ""
    /\ sent.response.fallback_url = fallback_url

\* a completed response names a job whose GLB is in the output area and is
\* the artifact of the request's own remote call, and every GLB of the
\* output area is what GET /api/download/{job_id}/glb returns
CompletedHasGlb ==
  /\ (Finished /\ sent.response.status = "completed") =>
       /\ sent.response.job_id \o Ext_glb \in GlbFiles(OUTPUT_FOLDER)
       /\ OUTPUT_FOLDER[sent.response.job_id \o Ext_glb].content = sent.glb_path
  /\ \A job_id \in JobIds :
       job_id \o Ext_glb \in GlbFiles(OUTPUT_FOLDER) =>
         download_responses(OUTPUT_FOLDER, job_id, "glb")
           = {send_file(job_id \o Ext_glb, OUTPUT_FOLDER[job_id \o Ext_glb].content)}

\* no step deletes or rewrites a file of the output area
OutputFilesKept ==
  \A n \in DOMAIN OUTPUT_FOLDER :
    OUTPUT_FOLDER[n].kind = "file" =>
      n \in DOMAIN OUTPUT_FOLDER' /\ OUTPUT_FOLDER'[n] = OUTPUT_FOLDER[n]

\* C5: a completed response with job ID j means j's GLB is stored and served
\* by the download endpoint, and no operation of the service deletes or
\* overwrites a stored output file afterwards.
C5_CompletedGlbPersists == []CompletedHasGlb /\ [][OutputFilesKept]_vars

\* the first job's GLB is downloaded after a second job has stored its own
C5_Witness ==
  /\ sent.op = "download" /\ sent.request.format = "glb"
  /\ sent.request.job_id = JobId(1)
  /\ sent.response.code = 200
  /\ JobId(2) \o Ext_glb \in GlbFiles(OUTPUT_FOLDER)
  /\ OUTPUT_FOLDER[JobId(1) \o Ext_glb].ctime < OUTPUT_FOLDER[JobId(2) \o Ext_glb].ctime

\* the output_format the client sent is "obj" in some mix of cases
IsObj(field) ==
  /\ field # {}
  /\ Len(The(field)) = 3
  /\ The(field)[1] \in {"o", "O"} /\ The(field)[2] \in {"b", "B"} /\ The(field)[3] \in {"j", "J"}

\* the download endpoint serves an .obj file of the job's subdirectory
ObjServed(job_id) ==
  \A resp \in download_responses(OUTPUT_FOLDER, job_id, "obj") :
    /\ resp.code = 200
    /\ resp.file # {}
    /\ \A f \in resp.file : f.name[1] = job_id /\ endswith(f.name[2], Ext_obj)

\* a successful response carries obj_url exactly for output_format obj, and
\* then the download endpoint serves the job's OBJ
ObjUrlServed ==
  (Finished /\ sent.response.code = 200) =>
    /\ sent.response.obj_url # {} <=> IsObj(sent.request.output_format)
    /\ sent.response.obj_url # {} =>
         /\ sent.response.obj_url = {<<sent.response.job_id, "obj">>}
         /\ ObjServed(sent.response.job_id)

\* what the download endpoint serves as a job's OBJ, it serves after any step
ObjStillServed == \A job_id \in JobIds : ObjServed(job_id) => ObjServed(job_id)'

\* C6: obj_url is in a successful response exactly when the lower-cased
\* output_format is "obj", and then GET /api/download/{job_id}/obj returns an
\* .obj file from the job's subdirectory, now and after any later step.
C6_ObjUrlIffObjRequested == []ObjUrlServed /\ [][ObjStillServed]_vars

\* a request that sent output_format "ObJ" and got obj_url
C6_Witness ==
  /\ Finished /\ sent.response.code = 200
  /\ sent.request.output_format = {<<"O", "b", "J">>}
  /\ sent.response.obj_url # {}

\* the artifact a download asks for is not in the output area
Absent(folder, job_id, format) ==
  \/ format = "glb" /\ job_id \o Ext_glb \notin GlbFiles(folder)
  \/ format = "obj" /\ ~ ( /\ job_id \in DOMAIN folder
                           /\ folder[job_id].kind = "dir"
                           /\ \E f \in folder[job_id].files : endswith(f, Ext_obj) )
  \/ format \notin {"glb", "obj"}

\* C7: the download endpoint answers 404 whenever the requested artifact is
\* absent, and never changes the upload or output area.
C7_AbsentArtifactIs404 ==
  [][ sent'.op = "download" =>
        /\ Absent(OUTPUT_FOLDER, sent'.request.job_id, sent'.request.format)
             => sent'.response.code = 404
        /\ UNCHANGED <<UPLOAD_FOLDER, OUTPUT_FOLDER>> ]_vars

\* C8: GET /api/models returns one entry per GLB file of the output area,
\* total equal to the number of entries, and no entry precedes one with a
\* later creation time.
C8_ModelsNewestFirst ==
  [][ sent'.op = "models" =>
        LET models == sent'.response.models
            glbs   == GlbFiles(OUTPUT_FOLDER)
        IN  /\ sent'.response.total = Len(models)
            /\ Len(models) = Cardinality(glbs)
            /\ \A g \in glbs :
                 \E i \in DOMAIN models :
                   /\ models[i].job_id \o Ext_glb = g
                   /\ models[i].created_at = OUTPUT_FOLDER[g].ctime
            /\ \A i, k \in DOMAIN models :
                 models[i].created_at < models[k].created_at => k < i ]_vars

\* a listing of two GLBs with different creation times
C8_Witness ==
  /\ sent.op = "models"
  /\ sent.response.total = 2
  /\ sent.response.models[1].created_at > sent.response.models[2].created_at

\* thread t serves a generate request that was given a job ID
HasJob(t) == handler[t].op \in Generate /\ handler[t].job_id # <<>>

\* C9: concurrently handled generate requests have different job IDs and
\* touch different paths; a request's staged file stays its own until its
\* own cleanup, and the GLB stored for its job is the artifact of its own
\* remote call.
C9_NoCrossJobCollision ==
  /\ \A t, u \in Threads :
       (t # u /\ HasJob(t) /\ HasJob(u)) =>
         /\ handler[t].job_id # handler[u].job_id
         /\ handler[t].image_path \cap handler[u].image_path = {}
         /\ \A p \in handler[t].image_path : ~startswith(p, handler[u].job_id)
         /\ handler[t].job_id \o Ext_glb \notin {handler[u].job_id \o Ext_glb, handler[u].job_id}
  /\ \A t \in Threads :
       (HasJob(t) /\ handler[t].image_path # {}) =>
         \A p \in handler[t].image_path :
           /\ startswith(p, handler[t].job_id)
           /\ p \in DOMAIN UPLOAD_FOLDER
           /\ UPLOAD_FOLDER[p] = Image(t)
  /\ \A t \in Threads :
       (HasJob(t) /\ handler[t].pc \in {"convert", "finally"} /\ handler[t].glb_path # {}) =>
         /\ handler[t].glb_path = {[glb_of |-> Image(t)]}
         /\ handler[t].job_id \o Ext_glb \in GlbFiles(OUTPUT_FOLDER)
         /\ OUTPUT_FOLDER[handler[t].job_id \o Ext_glb].content = handler[t].glb_path

\* an upload request and a URL request in flight together, both staged
C9_Witness ==
  \E t, u \in Threads :
    /\ handler[t].op = "generate" /\ handler[t].pc = "finally" /\ handler[t].glb_path # {}
    /\ handler[u].op = "generate_url" /\ handler[u].pc = "fetch"

\* the last step answered a request whose OBJ conversion failed
ConversionFailed ==
  /\ Finished /\ sent.glb_path # {}
  /\ sent.response.error = "ConversionError"

\* C10: when the OBJ conversion fails the request is answered 500 and the
\* job's GLB stays on disk, served by the download endpoint and listed by
\* GET /api/models; and an OBJ subdirectory exists only for a job whose GLB
\* exists.
C10_GlbKeptOnConversionFailure ==
  /\ ConversionFailed =>
       /\ sent.response.code = 500
       /\ sent.job_id \o Ext_glb \in GlbFiles(OUTPUT_FOLDER)
       /\ \A resp \in download_responses(OUTPUT_FOLDER, sent.job_id, "glb") :
            resp.code = 200 /\ resp.file # {}
       /\ \A resp \in list_responses(OUTPUT_FOLDER) :
            \E i \in DOMAIN resp.models : resp.models[i].job_id = sent.job_id
  /\ \A n \in DOMAIN OUTPUT_FOLDER :
       OUTPUT_FOLDER[n].kind = "dir" => n \o Ext_glb \in GlbFiles(OUTPUT_FOLDER)

\* a request answered 500 after its conversion failed, its subdirectory empty
C10_Witness ==
  /\ ConversionFailed
  /\ sent.job_id \in DOMAIN OUTPUT_FOLDER
  /\ OUTPUT_FOLDER[sent.job_id].files = {}

====
